---- MODULE Spec2Model ----
(***************************************************************************)
(* State-machine model of conf/loader.go (package conf of shuttle):        *)
(*   - the Runtime Store: LoadRuntime, runtime.Get, runtime.Set            *)
(*   - the Config Loader: LoadConfig                                       *)
(*   - the Config Applier: ApplyConfig                                     *)
(*   - the mode-override decorator: ruleModeHandle                         *)
(* The storage back end, the codec and the downstream hooks are the        *)
(* collaborators the file imports; they are modelled by their contracts.   *)
(***************************************************************************)
EXTENDS Integers, Sequences, FiniteSets, TLC

\* ------------------------------------------------------------------ bounds
NumCallers == 2    \* goroutines calling Get/Set on the one Runtime Store
MaxCalls == 3      \* Get/Set calls made per process lifetime
MaxBoots == 2      \* process starts (LoadRuntime calls) in one behaviour

NumEvaluators == 2 \* goroutines evaluating the mode-override handles
MaxApplies == 3    \* ApplyConfig calls in one behaviour
MaxIncludes == 2   \* Include entries of a primary configuration

\* ------------------------------------------------------------------ values
Callers == 1..NumCallers
Keys == {"k1", "k2"}
\* "chan" stands for a Go value no codec can encode (a channel, a func).
Values == {"v1", "v2", "chan"}
\* what a Go map lookup yields for a missing key (the nil interface)
Absent == "nil"
NoErr == "nil"
EmptyMap == [k \in Keys |-> Absent]

\* Keys in the order the codec writes them.
KeyOrder == <<"k1", "k2">>

\* ------------------------------------------------------------------ codec
\* marshal.IMarshal.Marshal of a map[string]interface{}: "{" k v k v ... "}",
\* one byte per string; fails on a value that cannot be encoded.
RECURSIVE EncodePairs(_, _)
EncodePairs(mp, i) ==
  IF i > Len(KeyOrder) THEN <<>>
  ELSE LET k == KeyOrder[i] IN
       (IF mp[k] = Absent THEN <<>> ELSE <<k, mp[k]>>) \o EncodePairs(mp, i + 1)

Marshal(mp) ==
  IF \E k \in Keys : mp[k] = "chan"
  THEN [err |-> "ErrEncode", data |-> <<>>]
  ELSE [err |-> NoErr, data |-> <<"{">> \o EncodePairs(mp, 1) \o <<"}">>]

\* marshal.IMarshal.UnMarshal into an existing map: every pair of the payload
\* is stored into the target, a later pair for the same key winning; a payload
\* that is not "{" pairs "}" is a decode error (the empty payload included).
RECURSIVE DecodePairs(_, _, _)
DecodePairs(data, i, mp) ==
  IF i + 1 > Len(data) - 1 THEN mp
  ELSE DecodePairs(data, i + 2, [mp EXCEPT ![data[i]] = data[i + 1]])

WellFormed(data) ==
  /\ Len(data) >= 2
  /\ data[1] = "{"
  /\ data[Len(data)] = "}"
  /\ Len(data) % 2 = 0
  /\ \A i \in 2..(Len(data) - 1) :
       IF i % 2 = 0 THEN data[i] \in Keys ELSE data[i] \in Values

UnMarshal(data, target) ==
  IF WellFormed(data)
  THEN [err |-> NoErr, value |-> DecodePairs(data, 2, target)]
  ELSE [err |-> "ErrDecode", value |-> target]


\* ------------------------------------------------------------------ storage
\* storage.IStorage of the Runtime Store's source: the payload it holds, or
\* nothing when the source does not exist yet.
NoFile == [exists |-> FALSE, data |-> <<>>]
File(data) == [exists |-> TRUE, data |-> data]

\* IStorage.Load: the payload, a not-found error, or another I/O error.
StorageLoad(d, ioErr) ==
  IF ioErr THEN [err |-> "EIO", data |-> <<>>]
  ELSE IF ~d.exists THEN [err |-> "ENOENT", data |-> <<>>]
  ELSE [err |-> NoErr, data |-> d.data]

\* IStorage.Save: replaces the payload, or fails and leaves it as it was.
StorageSave(d, data, ok) ==
  IF ok THEN [err |-> NoErr, disk |-> File(data)]
  ELSE [err |-> "ErrSave", disk |-> d]

\* ------------------------------------------------------------------ state
\* The Runtime Store.
VARIABLES
  disk,     \* what the Runtime Store's storage holds
  phase,    \* "down" (not started), "up" (LoadRuntime returned a store),
            \* "failed" (LoadRuntime returned an error), "crashed"
  store,    \* the *runtime LoadRuntime returned: value and Mutex
  lr,       \* the LoadRuntime call that has just returned: its error, the
            \* operations it made on storage and codec, the storage it started
            \* from, what its collaborators answered
  rpc,      \* per caller: position inside runtime.Get / runtime.Set
  rarg,     \* per caller: the arguments of the call in progress
  rbuf,     \* per caller: data, the local of Set (line 219)
  rret,     \* per caller: what the last call returned
  calls,    \* Get/Set calls made since the process started
  boots,    \* LoadRuntime calls so far
  rhist     \* history: whether every Set since the load returned nil, whether
            \* one did, the storage at the entry of the latest call, the value
            \* of the latest Set on each key, whether the payload is the one a
            \* healing Save wrote, the map a clean shutdown left behind

rtvars == <<disk, phase, store, lr, rpc, rarg, rbuf, rret, calls, boots, rhist>>

\* The mode-override handles.
VARIABLES
  mode,     \* np.Mode() of the namespace in the request context
  rules,    \* the Rule objects: Typ, Proxy, Profile
  chain,    \* per handle: the chain it wraps (next)
  epc,      \* per evaluator: position inside the handle's closure
  ereq,     \* per evaluator: the handle called and info
  emode,    \* per evaluator: the mode the switch of line 158 read
  eret,     \* per evaluator: the *Rule returned
  eobs,     \* per evaluator: the type and proxy the caller read from the rule
            \* it was returned
  ehist     \* per evaluator: calls of next made by the call, whether the call
            \* assigned a field of a shared Rule

mdvars == <<mode, rules, chain, epc, ereq, emode, eret, ehist, eobs>>

\* The Config Applier.
VARIABLES
  apc,        \* position inside ApplyConfig: "idle" or the stage about to run
  acfg,       \* config.Info.Name of the configuration being applied
  aret,       \* what the last ApplyConfig returned
  ahooks,     \* the hooks the current call has invoked, with their outcome
  arules,     \* the Rule objects the current call has allocated
  profiles,   \* global.AddProfile's registry: name -> profile
  namespaces, \* namespace.AddNamespace's registry: name -> profile
  applies,    \* ApplyConfig calls so far
  ahist       \* both registries at the entry of the current call

apvars == <<apc, acfg, aret, ahooks, arules, profiles, namespaces, applies, ahist>>

\* The Config Loader.
VARIABLES
  content,  \* per source: the bytes its storage holds
  lpc,      \* position inside LoadConfig
  ldata,    \* data (lines 34 and 57)
  lconfig,  \* config (line 42), the object both decodes fill
  lbuffer,  \* buffer (line 51)
  lrange,   \* the slice the loop of line 52 ranges over, and the index in it
  lcret,    \* what LoadConfig returned
  llog,     \* the calls LoadConfig has made on its collaborators, with the
            \* source concerned and the outcome
  lnotify,  \* the sources notify is registered against, in order
  lhist     \* the buffer handed to the final decode

lcvars == <<content, lpc, ldata, lconfig, lbuffer, lrange, lcret, llog, lnotify, lhist>>

vars == <<rtvars, mdvars, apvars, lcvars>>

\* What a step of one component leaves alone: the other components.
RtFrame == UNCHANGED <<mdvars, apvars, lcvars>>
MdFrame == UNCHANGED <<rtvars, apvars, lcvars>>
ApFrame == UNCHANGED <<rtvars, mdvars, lcvars>>
LcFrame == UNCHANGED <<rtvars, mdvars, apvars>>

NoStore == [live |-> FALSE, value |-> EmptyMap, Mutex |-> "unlocked"]
NoArg == [op |-> "none", key |-> "k1", value |-> Absent]
NoRet == [value |-> Absent, err |-> NoErr]
NoHist == [clean |-> TRUE, wrote |-> FALSE, healed |-> FALSE, disk0 |-> NoFile,
           last |-> EmptyMap,
           prev |-> [known |-> FALSE, value |-> EmptyMap]]

\* The storage a process can find at its first start: no source, an empty
\* payload, a payload that is not the codec's, or an encoded map.
InitialDisks ==
  {NoFile, File(<<>>), File(<<"{", "k1">>),
   File(<<"{", "}">>), File(<<"{", "k1", "v1", "}">>),
   File(<<"{", "k1", "v2", "k2", "v1", "}">>)}

NoLoad == [err |-> NoErr, ops |-> <<>>, disk0 |-> NoFile, fresh |-> FALSE,
           in |-> [storOK |-> TRUE, ioErr |-> FALSE, saveOK |-> TRUE, encOK |-> TRUE]]

RtQuiet ==
  /\ phase = "down"
  /\ store = NoStore
  /\ lr = NoLoad
  /\ rpc = [p \in Callers |-> "idle"]
  /\ rarg = [p \in Callers |-> NoArg]
  /\ rbuf = [p \in Callers |-> <<>>]
  /\ rret = [p \in Callers |-> NoRet]
  /\ calls = 0
  /\ boots = 0
  /\ rhist = NoHist

RtInit ==
  /\ disk \in InitialDisks
  /\ RtQuiet

\* ------------------------------------------------------------------ LoadRuntime
\* Variant of IsNotExist: every error of Load counts as not-found.
IsAnyError(err) == TRUE

\* os.IsNotExist(errors.Cause(err)), line 180
IsNotExist(err) == err = "ENOENT"

\* Variant of HealPayload: an empty object in the codec's syntax is persisted.
HealPayloadEmptyObject == <<"{", "}">>

\* []byte{}, the payload of the healing Save, line 181
HealPayload == <<>>

\* Variant of ShouldDecode: the decoder is handed every payload.
AlwaysDecode(data) == TRUE

\* len(data) > 0, line 192
ShouldDecode(data) == Len(data) > 0

\* LoadRuntime, lines 173-204, as a function of the storage it finds and of
\* what its collaborators answer: storOK (the storage type is registered),
\* ioErr (Load fails for another reason than not-found), saveOK (the healing
\* Save succeeds), encOK (the encoding is registered).
LoadRuntimeResult(d, storOK, ioErr, saveOK, encOK) ==
  IF ~storOK
  THEN [err |-> "ErrUnknownBackend", store |-> NoStore, disk |-> d,
        ops |-> <<"storage.Get">>]
  ELSE
    LET ld == StorageLoad(d, ioErr)
        heal == ld.err # NoErr /\ IsNotExist(ld.err)
        sv == IF heal THEN StorageSave(d, HealPayload, saveOK)
              ELSE [err |-> ld.err, disk |-> d]
        ops3 == <<"storage.Get", "Load">> \o (IF heal THEN <<"Save">> ELSE <<>>)
    IN
    IF sv.err # NoErr
    THEN [err |-> sv.err, store |-> NoStore, disk |-> sv.disk, ops |-> ops3]
    ELSE IF ~encOK
    THEN [err |-> "ErrUnknownEncoding", store |-> NoStore, disk |-> sv.disk,
          ops |-> ops3 \o <<"marshal.Get">>]
    ELSE
      LET dec == IF ShouldDecode(ld.data) THEN UnMarshal(ld.data, EmptyMap)
                 ELSE [err |-> NoErr, value |-> EmptyMap]
          ops5 == ops3 \o <<"marshal.Get">>
                    \o (IF ShouldDecode(ld.data) THEN <<"UnMarshal">> ELSE <<>>)
      IN
      IF dec.err # NoErr
      THEN [err |-> dec.err, store |-> NoStore, disk |-> sv.disk, ops |-> ops5]
      ELSE [err |-> NoErr,
            store |-> [live |-> TRUE, value |-> dec.value, Mutex |-> "unlocked"],
            disk |-> sv.disk, ops |-> ops5]

\* The process starts and calls LoadRuntime once.
LoadRuntime ==
  /\ phase = "down"
  /\ boots < MaxBoots
  /\ \E storOK \in BOOLEAN, ioErr \in BOOLEAN, saveOK \in BOOLEAN, encOK \in BOOLEAN :
       LET res == LoadRuntimeResult(disk, storOK, ioErr, saveOK, encOK) IN
       /\ disk' = res.disk
       /\ store' = res.store
       /\ phase' = IF res.err = NoErr THEN "up" ELSE "failed"
       /\ lr' = [err |-> res.err, ops |-> res.ops, disk0 |-> disk, fresh |-> TRUE,
                 in |-> [storOK |-> storOK, ioErr |-> ioErr, saveOK |-> saveOK,
                         encOK |-> encOK]]
       /\ rhist' = [rhist EXCEPT !.clean = TRUE, !.wrote = FALSE, !.disk0 = NoFile,
                      !.last = EmptyMap,
                      !.healed = IF res.disk # disk THEN TRUE ELSE rhist.healed]
  /\ boots' = boots + 1
  /\ calls' = 0
  /\ UNCHANGED <<rpc, rarg, rbuf, rret>>
  /\ RtFrame

\* The process ends (at any point, calls in progress included); its memory is
\* gone, the storage stays.
Quiescent == \A p \in Callers : rpc[p] = "idle"

Exit ==
  /\ phase # "down"
  /\ boots < MaxBoots
  /\ phase' = "down"
  /\ store' = NoStore
  /\ rpc' = [p \in Callers |-> "idle"]
  /\ rarg' = [p \in Callers |-> NoArg]
  /\ rbuf' = [p \in Callers |-> <<>>]
  /\ rret' = [p \in Callers |-> NoRet]
  /\ lr' = NoLoad
  /\ rhist' = [rhist EXCEPT
       !.disk0 = NoFile,
       !.last = EmptyMap,
       !.prev = IF phase = "up" /\ Quiescent /\ rhist.clean /\ rhist.wrote
                THEN [known |-> TRUE, value |-> store.value]
                ELSE [known |-> FALSE, value |-> EmptyMap]]
  /\ UNCHANGED <<disk, calls, boots>>
  /\ RtFrame

\* ------------------------------------------------------------------ runtime.Get / runtime.Set
\* r.value[key], line 214
Get(mp, key) == mp[key]

\* Variant of SetValue: a key that is already set keeps its value.
SetValueIfAbsent(mp, key, value) ==
  IF mp[key] = Absent THEN [mp EXCEPT ![key] = value] ELSE mp

\* r.value[key] = value, line 218
SetValue(mp, key, value) == [mp EXCEPT ![key] = value]

\* A caller is between the entry and the return of a Get or a Set.
InCall(p) == rpc[p] # "idle"

Return(p, err, value) ==
  /\ rpc' = [rpc EXCEPT ![p] = "idle"]
  /\ rret' = [rret EXCEPT ![p] = [value |-> value, err |-> err]]

Enter(p, op, key, value) ==
  /\ phase = "up"
  /\ rpc[p] = "idle"
  /\ calls < MaxCalls
  /\ calls' = calls + 1
  /\ rarg' = [rarg EXCEPT ![p] = [op |-> op, key |-> key, value |-> value]]
  /\ rret' = [rret EXCEPT ![p] = NoRet]
  /\ lr' = NoLoad
  /\ rhist' = [rhist EXCEPT !.disk0 = disk,
                 !.prev = NoHist.prev,
                 !.last = IF op = "Set" THEN [rhist.last EXCEPT ![key] = value]
                          ELSE rhist.last]
  /\ UNCHANGED <<disk, phase, store, rbuf, boots>>
  /\ RtFrame

\* A caller enters Get (line 213). No lock is taken: the embedded Mutex is
\* never locked anywhere in the file.
GetCall(p) ==
  \E key \in Keys :
    /\ Enter(p, "Get", key, Absent)
    /\ rpc' = [rpc EXCEPT ![p] = "get"]

\* return r.value[key], line 214
GetRead(p) ==
  /\ phase = "up"
  /\ rpc[p] = "get"
  /\ Return(p, NoErr, Get(store.value, rarg[p].key))
  /\ UNCHANGED <<disk, phase, store, lr, rarg, rbuf, calls, boots, rhist>>
  /\ RtFrame

\* A caller enters Set (line 217), again without locking.
SetCall(p) ==
  \E key \in Keys, value \in Values :
    /\ Enter(p, "Set", key, value)
    /\ rpc' = [rpc EXCEPT ![p] = "write"]

\* r.value[key] = value, line 218
SetWrite(p) ==
  /\ phase = "up"
  /\ rpc[p] = "write"
  /\ store' = [store EXCEPT !.value = SetValue(store.value, rarg[p].key, rarg[p].value)]
  /\ rpc' = [rpc EXCEPT ![p] = "marshal"]
  /\ UNCHANGED <<disk, phase, lr, rarg, rbuf, rret, calls, boots, rhist>>
  /\ RtFrame

\* Variant of SetMarshal: a failed encode takes the key out of the map again.
SetMarshalRollback(p) ==
  /\ phase = "up"
  /\ rpc[p] = "marshal"
  /\ LET enc == Marshal(store.value) IN
     IF enc.err # NoErr
     THEN /\ Return(p, enc.err, Absent)
          /\ rhist' = [rhist EXCEPT !.clean = FALSE]
          /\ store' = [store EXCEPT !.value = [store.value EXCEPT ![rarg[p].key] = Absent]]
          /\ UNCHANGED rbuf
     ELSE /\ rbuf' = [rbuf EXCEPT ![p] = enc.data]
          /\ rpc' = [rpc EXCEPT ![p] = "save"]
          /\ UNCHANGED <<rret, rhist, store>>
  /\ UNCHANGED <<disk, phase, lr, rarg, calls, boots>>
  /\ RtFrame

\* data, err := r.m.Marshal(r.value); if err != nil { return err }, lines 219-222
SetMarshal(p) ==
  /\ phase = "up"
  /\ rpc[p] = "marshal"
  /\ LET enc == Marshal(store.value) IN
     IF enc.err # NoErr
     THEN /\ Return(p, enc.err, Absent)
          /\ rhist' = [rhist EXCEPT !.clean = FALSE]
          /\ UNCHANGED rbuf
     ELSE /\ rbuf' = [rbuf EXCEPT ![p] = enc.data]
          /\ rpc' = [rpc EXCEPT ![p] = "save"]
          /\ UNCHANGED <<rret, rhist>>
  /\ UNCHANGED <<disk, phase, store, lr, rarg, calls, boots>>
  /\ RtFrame

\* err = r.s.Save(data); return err or nil, lines 223-227
SetSave(p) ==
  /\ phase = "up"
  /\ rpc[p] = "save"
  /\ \E ok \in BOOLEAN :
       LET sv == StorageSave(disk, rbuf[p], ok) IN
       /\ disk' = sv.disk
       /\ Return(p, sv.err, Absent)
       /\ rhist' = IF sv.err = NoErr
                   THEN [rhist EXCEPT !.wrote = TRUE, !.healed = FALSE]
                   ELSE [rhist EXCEPT !.clean = FALSE]
  /\ UNCHANGED <<phase, store, lr, rarg, rbuf, calls, boots>>
  /\ RtFrame

\* Two goroutines about to touch r.value at once, one of them writing: a data
\* race on a Go map. Besides either order of the two accesses (the steps
\* above), the runtime may stop the process ("fatal error: concurrent map
\* writes" / "concurrent map read and map write").
MapAccess(p) == rpc[p] \in {"get", "write", "marshal"}

MapRaceFault(p, q) ==
  /\ phase = "up"
  /\ p # q
  /\ rpc[p] = "write"
  /\ MapAccess(q)
  /\ phase' = "crashed"
  /\ UNCHANGED <<disk, store, lr, rpc, rarg, rbuf, rret, calls, boots, rhist>>
  /\ RtFrame

\* One step of the Runtime Store with the callers of set P.
RtStep(P) ==
  \/ LoadRuntime
  \/ Exit
  \/ \E p \in P : GetCall(p)
  \/ \E p \in P : GetRead(p)
  \/ \E p \in P : SetCall(p)
  \/ \E p \in P : SetWrite(p)
  \/ \E p \in P : SetMarshal(p)
  \/ \E p \in P : SetSave(p)

RtNext == RtStep(Callers) \/ \E p \in Callers, q \in Callers : MapRaceFault(p, q)

\* A single caller: calls follow one another.
RtNextSeq == RtStep({1})

\* ------------------------------------------------------------------ Runtime Store: properties
\* The payload in storage decodes, and to exactly the in-memory map.
PayloadIsValue ==
  LET dec == UnMarshal(disk.data, EmptyMap) IN
  /\ disk.exists
  /\ dec.err = NoErr
  /\ dec.value = store.value

\* Caller p has returned from a call of the given kind.
Returned(p, op) == rpc[p] = "idle" /\ rarg[p].op = op

\* C1: Get and Set on one Runtime Store are mutually exclusive: no two callers
\* are between the entry and the return of a Get or a Set at the same time.
C1_MutualExclusion ==
  \A p \in Callers, q \in Callers : p # q => ~(InCall(p) /\ InCall(q))

\* C2: with callers running Set concurrently and neither storage nor codec
\* failing, once every call has returned nil the payload in storage decodes to
\* exactly the in-memory map.
C2_ConcurrentSetDurable ==
  (phase = "up" /\ Quiescent /\ rhist.clean /\ rhist.wrote) => PayloadIsValue

\* C3: for a single caller whose Set calls all returned nil: Get(k) is the
\* value of the last Set on k (the lookup, and what a Get call returned), the
\* payload decodes to exactly the in-memory map, and the store LoadRuntime
\* builds from the same storage after a restart holds the same map.
C3_RoundTrip ==
  /\ (phase = "up" /\ Quiescent /\ rhist.clean) =>
       /\ \A k \in Keys : rhist.last[k] # Absent => Get(store.value, k) = rhist.last[k]
       /\ \A p \in Callers :
            (Returned(p, "Get") /\ rhist.last[rarg[p].key] # Absent)
              => rret[p].value = rhist.last[rarg[p].key]
       /\ rhist.wrote => PayloadIsValue
  /\ (phase = "up" /\ lr.fresh /\ rhist.prev.known) =>
       \A k \in Keys : Get(store.value, k) = Get(rhist.prev.value, k)

\* C3 witness: after Set calls that all returned nil and a restart, LoadRuntime
\* has rebuilt a store in which k1 has the value v2.
C3_Witness ==
  /\ phase = "up" /\ lr.fresh /\ rhist.prev.known /\ boots = 2
  /\ Get(rhist.prev.value, "k1") = "v2"
  /\ Get(store.value, "k1") = "v2"

\* C4: a Set that fails returns the error of the encode or of the Save, leaves
\* key -> value in the in-memory map, and leaves storage as it was at its entry.
C4_FailedSet ==
  \A p \in Callers :
    (phase = "up" /\ Returned(p, "Set") /\ rret[p].err # NoErr) =>
      /\ rret[p].err = (IF Marshal(store.value).err # NoErr
                        THEN Marshal(store.value).err ELSE "ErrSave")
      /\ Get(store.value, rarg[p].key) = rarg[p].value
      /\ disk = rhist.disk0

\* C4 witnesses: a Set failed in the encode; a Set failed in the Save.
C4_Witness ==
  /\ phase = "up" /\ Returned(1, "Set") /\ rret[1].err = "ErrEncode"
  /\ Get(store.value, rarg[1].key) = "chan"

C4_WitnessSave ==
  /\ phase = "up" /\ Returned(1, "Set") /\ rret[1].err = "ErrSave"
  /\ disk.exists /\ UnMarshal(disk.data, EmptyMap).value # store.value

\* C5: LoadRuntime on a source that does not exist, with Save succeeding and
\* the encoding registered, returns a store with an empty map, does not call
\* the decoder and leaves an empty payload in storage; LoadRuntime on that
\* empty payload succeeds with an empty map too.
LoadAnswered == lr.fresh /\ lr.in.storOK /\ ~lr.in.ioErr /\ lr.in.encOK
DecoderInvoked == \E i \in 1..Len(lr.ops) : lr.ops[i] = "UnMarshal"
EmptyStoreReturned ==
  /\ lr.err = NoErr
  /\ phase = "up"
  /\ store.live
  /\ \A k \in Keys : Get(store.value, k) = Absent
  /\ ~DecoderInvoked

C5_EmptyStoreHealing ==
  /\ (LoadAnswered /\ ~lr.disk0.exists /\ lr.in.saveOK) =>
       (EmptyStoreReturned /\ disk = File(<<>>))
  /\ (LoadAnswered /\ lr.disk0 = File(<<>>)) =>
       (EmptyStoreReturned /\ disk = File(<<>>))

\* C5 witness: the second LoadRuntime has read the empty payload that the
\* first one's healing Save left.
C5_Witness ==
  /\ boots = 2 /\ LoadAnswered /\ rhist.healed
  /\ lr.disk0 = File(<<>>)
  /\ lr.ops = <<"storage.Get", "Load", "marshal.Get">>
  /\ EmptyStoreReturned

LoadFailed == lr.fresh /\ lr.err # NoErr
SavePerformed == \E i \in 1..Len(lr.ops) : lr.ops[i] = "Save"
\* The source does not exist, its Load reports so, the healing Save would
\* succeed, and the encoding is unregistered.
MissingSourceUnknownEncoding ==
  /\ lr.fresh /\ lr.in.storOK /\ ~lr.in.ioErr /\ ~lr.disk0.exists
  /\ lr.in.saveOK /\ ~lr.in.encOK

\* C15 as stated: a LoadRuntime that fails leaves the storage as it found it;
\* when the source does not exist and the encoding is unregistered, it
\* returns an error and has performed no Save.
C15_FailedLoadNoSave ==
  /\ LoadFailed => disk = lr.disk0
  /\ MissingSourceUnknownEncoding => (LoadFailed /\ ~SavePerformed)

\* C15, amended: a LoadRuntime that fails leaves the storage as it found it,
\* except that the healing Save comes before the encoding is resolved: when
\* the source does not exist, the healing Save succeeds and the encoding is
\* unregistered, LoadRuntime returns the registry's error and the empty
\* payload stays persisted.
C15_FailedLoadKeepsHealing ==
  /\ LoadFailed =>
       \/ disk = lr.disk0
       \/ /\ ~lr.disk0.exists /\ disk = File(<<>>)
          /\ lr.err = "ErrUnknownEncoding"
          /\ lr.ops = <<"storage.Get", "Load", "Save", "marshal.Get">>
  /\ MissingSourceUnknownEncoding =>
       /\ LoadFailed /\ lr.err = "ErrUnknownEncoding"
       /\ phase = "failed" /\ ~store.live
       /\ disk = File(<<>>)

\* C15 witness: LoadRuntime failed on the unregistered encoding and left the
\* empty payload where no source was.
C15_Witness ==
  /\ MissingSourceUnknownEncoding /\ LoadFailed
  /\ lr.disk0 = NoFile /\ disk = File(<<>>)

\* C19: LoadRuntime heals only not-found. When Load fails with another error,
\* LoadRuntime returns that error, creates no store and calls no Save (the
\* storage stays as it was); when Load reports not-found and the healing Save
\* fails, LoadRuntime returns the error of Save and creates no store.
C19_HealsOnlyNotFound ==
  /\ (lr.fresh /\ lr.in.storOK /\ lr.in.ioErr) =>
       /\ lr.err = "EIO"
       /\ phase = "failed" /\ ~store.live
       /\ ~SavePerformed /\ disk = lr.disk0
  /\ (lr.fresh /\ lr.in.storOK /\ ~lr.in.ioErr /\ ~lr.disk0.exists /\ ~lr.in.saveOK) =>
       /\ lr.err = "ErrSave"
       /\ phase = "failed" /\ ~store.live
       /\ lr.ops = <<"storage.Get", "Load", "Save">>

\* C19 witness: Load failed with an I/O error on a source that holds a
\* payload; the error came back and the payload is untouched.
C19_Witness ==
  /\ lr.fresh /\ lr.in.storOK /\ lr.in.ioErr /\ lr.in.saveOK
  /\ lr.err = "EIO" /\ phase = "failed"
  /\ lr.disk0.exists /\ lr.disk0.data # <<>> /\ disk = lr.disk0

\* ------------------------------------------------------------------ ruleModeHandle
\* constant.ModeDirect, constant.ModeGlobal and the rule-based mode
ModeDirect == "DIRECT"
ModeGlobal == "GLOBAL"
ModeRule == "RULE"
Modes == {ModeRule, ModeDirect, ModeGlobal}

\* server.Direct, the proxy of defaultRule (line 110)
ServerDirect == "DIRECT"

Evaluators == 1..NumEvaluators
\* The two handles ApplyConfig builds (lines 121 and 131); each closes over its
\* own &rule.Rule{Profile: ...}, named here like the handle.
Handles == {"tcp", "udp"}
\* Rule objects on the heap: the two shared override rules, defaultRule
\* (lines 108-111) and the rule of a DOMAIN link of a chain.
RuleIds == Handles \cup {"default", "domain"}
Domains == {"example.com", "other.org"}
NoRule == "none"

\* The chains rule.ApplyConfig can have built: a list of links, ending in the
\* fallback that returns defaultRule (lines 114-116, 124-126).
Chains == {<<>>, <<"domain">>}

\* A link's predicate: the DOMAIN rule matches example.com.
Matches(link, domain) == link = "domain" /\ domain = "example.com"

\* next(ctx, info): the first link that matches returns its rule, the
\* fallback returns defaultRule.
RECURSIVE ChainResult(_, _)
ChainResult(links, domain) ==
  IF links = <<>> THEN "default"
  ELSE IF Matches(Head(links), domain) THEN Head(links)
  ELSE ChainResult(Tail(links), domain)

NewRule(typ, proxy, profile) == [Typ |-> typ, Proxy |-> proxy, Profile |-> profile]
NoReq == [h |-> "none", domain |-> "other.org"]
NoEHist == [nexts |-> 0, wrote |-> FALSE]
NoObs == [Typ |-> "none", Proxy |-> "none"]

\* The heap after ApplyConfig built both handles for a profile.
RulesAfterApply(profile) ==
  [id \in RuleIds |->
     CASE id \in Handles -> NewRule("", "", profile)
       [] id = "default" -> NewRule("FINAL", ServerDirect, "")
       [] OTHER -> NewRule("DOMAIN", "PROXY1", "")]

MdIdle ==
  /\ epc = [e \in Evaluators |-> "idle"]
  /\ ereq = [e \in Evaluators |-> NoReq]
  /\ emode = [e \in Evaluators |-> ModeRule]
  /\ eret = [e \in Evaluators |-> NoRule]
  /\ ehist = [e \in Evaluators |-> NoEHist]
  /\ eobs = [e \in Evaluators |-> NoObs]

MdQuiet ==
  /\ mode = ModeRule
  /\ rules = RulesAfterApply("p1")
  /\ chain = [h \in Handles |-> <<>>]
  /\ MdIdle

MdInit ==
  /\ mode \in Modes
  /\ rules = RulesAfterApply("p1")
  /\ chain \in [Handles -> Chains]
  /\ MdIdle

\* The namespace's mode is switched (outside this file) at any time.
SetMode ==
  /\ \E m \in Modes : m # mode /\ mode' = m
  /\ UNCHANGED <<rules, chain, epc, ereq, emode, eret, ehist, eobs>>
  /\ MdFrame

\* A request enters the closure ruleModeHandle returned (line 156).
Evaluate(e) ==
  /\ epc[e] = "idle"
  /\ \E h \in Handles, d \in Domains :
       /\ ereq' = [ereq EXCEPT ![e] = [h |-> h, domain |-> d]]
       /\ ehist' = [ehist EXCEPT ![e] = NoEHist]
  /\ epc' = [epc EXCEPT ![e] = "mode"]
  /\ eret' = [eret EXCEPT ![e] = NoRule]
  /\ eobs' = [eobs EXCEPT ![e] = NoObs]
  /\ UNCHANGED <<mode, rules, chain, emode>>
  /\ MdFrame

\* Variant of SharedRule: one Rule object is handed to both ruleModeHandle
\* calls.
SharedRuleCommon(h) == "tcp"

\* r of the closure of each handle: the &rule.Rule{Profile: ...} allocated in
\* the call that builds it (line 121 for tcp, line 131 for udp).
SharedRule(h) == h

\* Variant of Overrides: only the Direct mode short-circuits the chain.
OverridesDirectOnly(m) == m = ModeDirect

\* The cases of the switch that return r (lines 159 and 163).
Overrides(m) == m \in {ModeDirect, ModeGlobal}

\* r.Proxy of each case (lines 161 and 165)
ModeProxy(m) == IF m = ModeDirect THEN "DIRECT" ELSE "GLOBAL"

\* np := namespace.NamespaceWithContext(ctx); switch np.Mode(), lines 157-158
ReadMode(e) ==
  /\ epc[e] = "mode"
  /\ emode' = [emode EXCEPT ![e] = mode]
  /\ epc' = [epc EXCEPT ![e] = IF Overrides(mode) THEN "typ" ELSE "next"]
  /\ UNCHANGED <<mode, rules, chain, ereq, eret, ehist, eobs>>
  /\ MdFrame

\* r.Typ = constant.ModeDirect / constant.ModeGlobal, lines 160 and 164
WriteTyp(e) ==
  /\ epc[e] = "typ"
  /\ rules' = [rules EXCEPT ![SharedRule(ereq[e].h)].Typ = emode[e]]
  /\ ehist' = [ehist EXCEPT ![e].wrote = TRUE]
  /\ epc' = [epc EXCEPT ![e] = "proxy"]
  /\ UNCHANGED <<mode, chain, ereq, emode, eret, eobs>>
  /\ MdFrame

\* r.Proxy = "DIRECT" / "GLOBAL", lines 161 and 165
WriteProxy(e) ==
  /\ epc[e] = "proxy"
  /\ rules' = [rules EXCEPT ![SharedRule(ereq[e].h)].Proxy = ModeProxy(emode[e])]
  /\ ehist' = [ehist EXCEPT ![e].wrote = TRUE]
  /\ epc' = [epc EXCEPT ![e] = "return"]
  /\ UNCHANGED <<mode, chain, ereq, emode, eret, eobs>>
  /\ MdFrame

\* return r, lines 162 and 166
ReturnShared(e) ==
  /\ epc[e] = "return"
  /\ eret' = [eret EXCEPT ![e] = SharedRule(ereq[e].h)]
  /\ epc' = [epc EXCEPT ![e] = "idle"]
  /\ UNCHANGED <<mode, rules, chain, ereq, emode, ehist, eobs>>
  /\ MdFrame

\* default: return next(ctx, info), lines 167-168
ReturnNext(e) ==
  /\ epc[e] = "next"
  /\ eret' = [eret EXCEPT ![e] = ChainResult(chain[ereq[e].h], ereq[e].domain)]
  /\ ehist' = [ehist EXCEPT ![e].nexts = @ + 1]
  /\ epc' = [epc EXCEPT ![e] = "idle"]
  /\ UNCHANGED <<mode, rules, chain, ereq, emode, eobs>>
  /\ MdFrame

\* The caller reads the type and the proxy of the rule it was returned
\* (outside this file; the handle returns the pointer r itself, lines 162 and
\* 166, so the read is of the object later calls write).
ReadRule(e) ==
  /\ epc[e] = "idle"
  /\ eret[e] # NoRule
  /\ eobs[e] = NoObs
  /\ eobs' = [eobs EXCEPT ![e] = [Typ |-> rules[eret[e]].Typ,
                                  Proxy |-> rules[eret[e]].Proxy]]
  /\ UNCHANGED <<mode, rules, chain, epc, ereq, emode, eret, ehist>>
  /\ MdFrame

MdStep(E) ==
  \/ SetMode
  \/ \E e \in E : Evaluate(e)
  \/ \E e \in E : ReadMode(e)
  \/ \E e \in E : WriteTyp(e)
  \/ \E e \in E : WriteProxy(e)
  \/ \E e \in E : ReturnShared(e)
  \/ \E e \in E : ReturnNext(e)
  \/ \E e \in E : ReadRule(e)

MdNext == MdStep(Evaluators)

\* One request at a time.
MdNextSeq == MdStep({1})

\* ------------------------------------------------------------------ ruleModeHandle: properties
\* An evaluation by e has returned.
Evaluated(e) == epc[e] = "idle" /\ ereq[e].h \in Handles

\* C6: the handle returns a rule with type DIRECT and proxy "DIRECT" when the
\* mode it read is Direct, type GLOBAL and proxy "GLOBAL" when it is Global,
\* both without calling the wrapped chain; in any other mode it returns the
\* rule the wrapped chain returns for the request and leaves its shared Rule
\* as it was.
C6_ModeOverride ==
  \A e \in Evaluators :
    Evaluated(e) =>
      LET h == ereq[e].h IN
      /\ emode[e] = ModeDirect =>
           /\ eret[e] = h
           /\ rules[eret[e]].Typ = ModeDirect /\ rules[eret[e]].Proxy = "DIRECT"
           /\ ehist[e].nexts = 0
      /\ emode[e] = ModeGlobal =>
           /\ eret[e] = h
           /\ rules[eret[e]].Typ = ModeGlobal /\ rules[eret[e]].Proxy = "GLOBAL"
           /\ ehist[e].nexts = 0
      /\ emode[e] \notin {ModeDirect, ModeGlobal} =>
           /\ eret[e] = ChainResult(chain[h], ereq[e].domain)
           /\ ehist[e].nexts = 1
           /\ ~ehist[e].wrote

\* C6 witness: in Global mode a request for example.com got the shared rule
\* GLOBAL/GLOBAL although the chain has a DOMAIN link matching it.
C6_Witness ==
  /\ Evaluated(1) /\ emode[1] = ModeGlobal
  /\ ereq[1].domain = "example.com" /\ chain[ereq[1].h] = <<"domain">>
  /\ rules[eret[1]].Typ = ModeGlobal /\ rules[eret[1]].Proxy = "GLOBAL"
  /\ ehist[1].wrote

\* C6 witness of the last case: after an override, a request in rule mode got
\* the chain's DOMAIN rule and the shared Rule kept the override's values.
C6_WitnessRuleMode ==
  /\ Evaluated(1) /\ emode[1] = ModeRule
  /\ eret[1] = "domain" /\ rules[ereq[1].h].Typ = ModeGlobal

\* The caller of evaluation e has read the rule it was returned.
Observed(e) == eobs[e] # NoObs

\* C17: with evaluations of the handles in progress at once and the mode
\* switched in between, a caller that reads the rule it was returned sees type
\* DIRECT with proxy "DIRECT" when its evaluation read mode Direct, and type
\* GLOBAL with proxy "GLOBAL" when it read mode Global.
C17_ConsistentPair ==
  \A e \in Evaluators :
    Observed(e) =>
      /\ emode[e] = ModeDirect => eobs[e] = [Typ |-> ModeDirect, Proxy |-> "DIRECT"]
      /\ emode[e] = ModeGlobal => eobs[e] = [Typ |-> ModeGlobal, Proxy |-> "GLOBAL"]

\* An evaluation of handle h takes one of its two writing steps.
Writes(e, h) ==
  /\ ereq[e].h = h
  /\ epc[e] \in {"typ", "proxy"}
  /\ epc'[e] # epc[e]

\* C20: the two handles are independent: a step changes the shared Rule of a
\* handle only if it is a write of an evaluation of that same handle, so
\* evaluating one handle, in any mode, leaves the rule the other handle
\* returns as it was; and no step changes defaultRule (FINAL, Direct) or a
\* rule of the chains.
C20_HandlesIndependent ==
  /\ [](rules["default"] = NewRule("FINAL", ServerDirect, ""))
  /\ [][\A id \in RuleIds :
          rules'[id] # rules[id] =>
            /\ id \in Handles
            /\ \E e \in Evaluators : Writes(e, id)]_vars

\* C20 witness: the connection handle was evaluated in Direct mode and then
\* the datagram handle in Global mode: each shared Rule holds its own
\* override, and defaultRule is as it was built.
C20_Witness ==
  /\ Evaluated(1) /\ ereq[1].h = "udp" /\ emode[1] = ModeGlobal /\ eret[1] = "udp"
  /\ rules["tcp"] = NewRule(ModeDirect, "DIRECT", "p1")
  /\ rules["udp"] = NewRule(ModeGlobal, "GLOBAL", "p1")
  /\ rules["default"] = NewRule("FINAL", ServerDirect, "")

\* ------------------------------------------------------------------ ApplyConfig
ConfigNames == {"p1", "p2"}
\* name := "default", line 78
Namespace == "default"

\* The stages of ApplyConfig in the order of the code: the eight ApplyConfig
\* hooks (lines 81-139), global.NewProfile (line 144), and the two
\* publications (lines 148 and 151).
StageOrder ==
  <<"plugin.ApplyConfig", "dns.ApplyConfig", "server.ApplyConfig",
    "group.ApplyConfig", "rule.ApplyConfig", "rule.ApplyConfig(udp)",
    "filter.ApplyConfig", "stream.ApplyConfig", "global.NewProfile",
    "global.AddProfile", "namespace.AddNamespace">>

Publications == {"global.AddProfile", "namespace.AddNamespace"}
Stages == {StageOrder[i] : i \in 1..Len(StageOrder)}
\* The stages that return an error.
Fallible == Stages \ Publications

StageIndex(seq, stage) == CHOOSE i \in 1..Len(seq) : seq[i] = stage

\* Variant of StageAfter: the profile is registered before the filter and
\* stream stages have run.
StageAfterEarlyPublish(stage) ==
  LET order == <<"plugin.ApplyConfig", "dns.ApplyConfig", "server.ApplyConfig",
                 "group.ApplyConfig", "rule.ApplyConfig", "rule.ApplyConfig(udp)",
                 "global.NewProfile", "global.AddProfile", "filter.ApplyConfig",
                 "stream.ApplyConfig", "namespace.AddNamespace">>
      i == StageIndex(order, stage)
  IN IF i = Len(order) THEN "return" ELSE order[i + 1]

\* Variant of StageAfter: the stream interceptors are applied before the
\* filters.
StageAfterStreamFirst(stage) ==
  LET order == <<"plugin.ApplyConfig", "dns.ApplyConfig", "server.ApplyConfig",
                 "group.ApplyConfig", "rule.ApplyConfig", "rule.ApplyConfig(udp)",
                 "stream.ApplyConfig", "filter.ApplyConfig", "global.NewProfile",
                 "global.AddProfile", "namespace.AddNamespace">>
      i == StageIndex(order, stage)
  IN IF i = Len(order) THEN "return" ELSE order[i + 1]

\* Where control goes when a stage has succeeded.
StageAfter(stage) ==
  LET i == StageIndex(StageOrder, stage)
  IN IF i = Len(StageOrder) THEN "return" ELSE StageOrder[i + 1]

\* What ApplyConfig returns when a stage fails: errors.Wrapf with the text of
\* lines 83, 88, 118, 128, 136, 141, 146, or the bare err of lines 93 and 98.
StageError(stage) ==
  CASE stage = "plugin.ApplyConfig" -> [cause |-> stage, wrap |-> "[plugin.ApplyConfig] failed"]
    [] stage = "dns.ApplyConfig" -> [cause |-> stage, wrap |-> "[dns.ApplyConfig] failed"]
    [] stage = "server.ApplyConfig" -> [cause |-> stage, wrap |-> ""]
    [] stage = "group.ApplyConfig" -> [cause |-> stage, wrap |-> ""]
    [] stage = "rule.ApplyConfig" -> [cause |-> stage, wrap |-> "[rule.ApplyConfig] failed"]
    [] stage = "rule.ApplyConfig(udp)" -> [cause |-> stage, wrap |-> "[rule.ApplyConfig] failed"]
    [] stage = "filter.ApplyConfig" -> [cause |-> stage, wrap |-> "[filter.ApplyConfig] failed"]
    [] stage = "stream.ApplyConfig" -> [cause |-> stage, wrap |-> "[stream.ApplyConfig] failed"]
    [] OTHER -> [cause |-> stage, wrap |-> "create profile failed"]

NilError == [cause |-> "nil", wrap |-> ""]
NoProfile == 0
NoReturn == [returned |-> FALSE, err |-> NilError]

\* The Rule objects allocated once a stage has succeeded: defaultRule before
\* the TCP chain is built (lines 108-111), one &rule.Rule{Profile: ...} for
\* each ruleModeHandle (lines 121 and 131).
RulesAllocated(stage, name) ==
  CASE stage = "group.ApplyConfig" -> <<NewRule("FINAL", ServerDirect, "")>>
    [] stage \in {"rule.ApplyConfig", "rule.ApplyConfig(udp)"} ->
         <<NewRule("", "", name)>>
    [] OTHER -> <<>>

ApQuiet ==
  /\ apc = "idle"
  /\ acfg = "p1"
  /\ aret = NoReturn
  /\ ahooks = <<>>
  /\ arules = <<>>
  /\ profiles = [n \in ConfigNames |-> NoProfile]
  /\ namespaces = [n \in {Namespace} |-> NoProfile]
  /\ applies = 0
  /\ ahist = [profiles |-> [n \in ConfigNames |-> NoProfile],
              namespaces |-> [n \in {Namespace} |-> NoProfile]]

ApInit == ApQuiet

\* ApplyConfig is called with a configuration (line 76); nothing is called
\* before plugin.ApplyConfig.
ApplyConfig ==
  /\ apc = "idle"
  /\ applies < MaxApplies
  /\ \E name \in ConfigNames : acfg' = name
  /\ applies' = applies + 1
  /\ apc' = StageOrder[1]
  /\ aret' = NoReturn
  /\ ahooks' = <<>>
  /\ arules' = <<>>
  /\ ahist' = [profiles |-> profiles, namespaces |-> namespaces]
  /\ UNCHANGED <<profiles, namespaces>>
  /\ ApFrame

\* One of the stages that can fail runs (lines 81-147): on an error
\* ApplyConfig returns it, otherwise it goes on to the next stage.
RunStage ==
  /\ apc \in Fallible
  /\ \E ok \in BOOLEAN :
       /\ ahooks' = Append(ahooks, [hook |-> apc, ok |-> ok])
       /\ IF ok
          THEN /\ apc' = StageAfter(apc)
               /\ arules' = arules \o RulesAllocated(apc, acfg)
               /\ UNCHANGED aret
          ELSE /\ apc' = "idle"
               /\ aret' = [returned |-> TRUE, err |-> StageError(apc)]
               /\ UNCHANGED arules
  /\ UNCHANGED <<acfg, profiles, namespaces, applies, ahist>>
  /\ ApFrame

\* What the call returns after its last stage.
Finish(next) ==
  IF next = "return"
  THEN apc' = "idle" /\ aret' = [returned |-> TRUE, err |-> NilError]
  ELSE apc' = next /\ UNCHANGED aret

\* global.AddProfile(config.Info.Name, profile), line 148
AddProfile ==
  /\ apc = "global.AddProfile"
  /\ profiles' = [profiles EXCEPT ![acfg] = applies]
  /\ ahooks' = Append(ahooks, [hook |-> apc, ok |-> TRUE])
  /\ Finish(StageAfter(apc))
  /\ UNCHANGED <<acfg, arules, namespaces, applies, ahist>>
  /\ ApFrame

\* namespace.AddNamespace(name, ctx, profile, runtime); return nil, lines 151-152
AddNamespace ==
  /\ apc = "namespace.AddNamespace"
  /\ namespaces' = [namespaces EXCEPT ![Namespace] = applies]
  /\ ahooks' = Append(ahooks, [hook |-> apc, ok |-> TRUE])
  /\ Finish(StageAfter(apc))
  /\ UNCHANGED <<acfg, arules, profiles, applies, ahist>>
  /\ ApFrame

ApNext == ApplyConfig \/ RunStage \/ AddProfile \/ AddNamespace

\* ------------------------------------------------------------------ ApplyConfig: properties
Invoked(hook) == \E i \in 1..Len(ahooks) : ahooks[i].hook = hook
Succeeded(hook) == \E i \in 1..Len(ahooks) : ahooks[i].hook = hook /\ ahooks[i].ok
Failed(hook) == \E i \in 1..Len(ahooks) : ahooks[i].hook = hook /\ ~ahooks[i].ok
Published == \E h \in Publications : Invoked(h)

\* C7: when a stage of ApplyConfig fails, ApplyConfig returns an error and has
\* called neither global.AddProfile nor namespace.AddNamespace (both registries
\* are as at its entry); the two are called only once every stage has
\* succeeded, and they are the last two steps of a call that returns nil.
C7_NoPartialProfile ==
  /\ (\E h \in Fallible : Failed(h)) =>
       /\ aret.returned /\ aret.err # NilError
       /\ ~Published
       /\ profiles = ahist.profiles /\ namespaces = ahist.namespaces
  /\ Published => \A h \in Fallible : Succeeded(h)
  /\ ~Published => (profiles = ahist.profiles /\ namespaces = ahist.namespaces)
  /\ (aret.returned /\ aret.err = NilError) =>
       /\ Len(ahooks) = Len(StageOrder)
       /\ ahooks[Len(ahooks) - 1].hook = "global.AddProfile"
       /\ ahooks[Len(ahooks)].hook = "namespace.AddNamespace"
       /\ profiles[acfg] = applies /\ namespaces[Namespace] = applies

\* C7 witness: after one profile was published, a later ApplyConfig failed in
\* the stream stage and left both registries as they were.
C7_Witness ==
  /\ aret.returned /\ Failed("stream.ApplyConfig")
  /\ applies = 2 /\ namespaces[Namespace] = 1 /\ profiles[acfg] = NoProfile

\* The eight ApplyConfig hooks of the downstream packages (lines 81-139), and
\* the function each stage calls: both rule stages call rule.ApplyConfig.
DownstreamHooks == Fallible \ {"global.NewProfile"}
HookName(stage) ==
  IF stage = "rule.ApplyConfig(udp)" THEN "rule.ApplyConfig" ELSE stage

\* C11: when one of the eight downstream hooks fails, the error ApplyConfig
\* returns carries a wrapping message, and that message is the one of the
\* hook that failed and of no other hook.
C11_StageErrorsWrapped ==
  \A h \in DownstreamHooks :
    (aret.returned /\ Failed(h)) =>
      /\ aret.err.wrap # ""
      /\ \A g \in DownstreamHooks :
           HookName(g) # HookName(h) => StageError(g).wrap # aret.err.wrap

\* The hooks in the order C18 lists them: the eight downstream hooks and the
\* profile assembly.
HookSequence ==
  <<"plugin.ApplyConfig", "dns.ApplyConfig", "server.ApplyConfig",
    "group.ApplyConfig", "rule.ApplyConfig", "rule.ApplyConfig(udp)",
    "filter.ApplyConfig", "stream.ApplyConfig", "global.NewProfile">>

\* C18: the hooks one ApplyConfig has invoked are, at every moment, the first
\* hooks of the sequence plugin, DNS, server, group, connection rule chain,
\* datagram rule chain, filter, stream interceptor, profile assembly, in that
\* order; every invoked hook but the last has succeeded, and once a hook has
\* failed it is the last one invoked and ApplyConfig returns its error.
C18_HookOrder ==
  /\ \A i \in 1..Len(ahooks) :
       /\ i <= Len(HookSequence) => ahooks[i].hook = HookSequence[i]
       /\ i < Len(ahooks) => ahooks[i].ok
  /\ \A h \in Fallible :
       Failed(h) => /\ ahooks[Len(ahooks)].hook = h
                    /\ aret.returned /\ aret.err.cause = h

\* C18 witness: the stream interceptor hook failed as the eighth hook, after
\* the seven before it had succeeded, and nothing was invoked after it.
C18_Witness ==
  /\ aret.returned /\ Failed("stream.ApplyConfig")
  /\ Len(ahooks) = 8 /\ \A i \in 1..7 : ahooks[i].ok

\* ------------------------------------------------------------------ configuration sources
\* The sources: the primary one (typ and params of LoadConfig) and the ones an
\* Include entry can name.
Primary == "a"
Includable == {"b", "c"}
Sources == {Primary} \cup Includable

\* IStorage.Name() of each source.
StorageName == [src \in Sources |-> CASE src = "a" -> "a.conf"
                                      [] src = "b" -> "b.conf"
                                      [] OTHER -> "c.conf"]

\* The bytes of a source, at the grain of lexemes: a statement (an Include
\* entry, a name, a rule, something the codec rejects) or a newline byte.
NL == [k |-> "nl", v |-> ""]
Inc(src) == [k |-> "include", v |-> src]
NameIs(n) == [k |-> "name", v |-> n]
Rule(r) == [k |-> "rule", v |-> r]
Bad == [k |-> "bad", v |-> ""]

\* Statements, one per line (no newline after the last one).
RECURSIVE Lines(_)
Lines(stmts) ==
  IF stmts = <<>> THEN <<>>
  ELSE IF Len(stmts) = 1 THEN stmts
  ELSE <<Head(stmts), NL>> \o Lines(Tail(stmts))

RECURSIVE SeqsUpTo(_, _)
SeqsUpTo(S, n) ==
  IF n = 0 THEN {<<>>}
  ELSE LET shorter == SeqsUpTo(S, n - 1) IN
       shorter \cup {Append(q, x) : q \in shorter, x \in S}

IncludeLists == SeqsUpTo(Includable, MaxIncludes)

RECURSIVE IncStatements(_)
IncStatements(srcs) ==
  IF srcs = <<>> THEN <<>> ELSE <<Inc(Head(srcs))>> \o IncStatements(Tail(srcs))

PrimaryContents ==
  {Lines(pre \o IncStatements(incs)) :
     pre \in {<<Rule("DOMAIN,example.com,PROXY1")>>, <<NameIs("x")>>},
     incs \in IncludeLists}
  \cup {<<Bad>>}

IncludeContents ==
  {<<>>, <<Rule("FINAL,,DIRECT")>>, Lines(<<NameIs("y"), Inc("c")>>), <<Bad>>}

\* ------------------------------------------------------------------ configuration codec
\* model.Config, as far as the loader reads or writes it.
NewConfig == [nil |-> FALSE, Include |-> <<>>, Name |-> "", Rules |-> <<>>]
NilConfig == [nil |-> TRUE, Include |-> <<>>, Name |-> "", Rules |-> <<>>]

\* The codec accepts statements separated by newlines.
SyntaxOK(data) ==
  /\ \A i \in 1..Len(data) : data[i] # Bad
  /\ \A i \in 1..(Len(data) - 1) : data[i] = NL \/ data[i + 1] = NL

RECURSIVE Collect(_, _)
Collect(data, kind) ==
  IF data = <<>> THEN <<>>
  ELSE (IF Head(data).k = kind THEN <<Head(data).v>> ELSE <<>>)
         \o Collect(Tail(data), kind)

\* IMarshal.UnMarshal(data, config): a field that occurs in data is replaced
\* (a list by all its entries in data, in order; the name by its last
\* occurrence), a field that does not occur keeps what config held.
UnMarshalConfig(data, config) ==
  IF ~SyntaxOK(data) THEN [err |-> "ErrDecode", config |-> config]
  ELSE
    LET incs == Collect(data, "include")
        names == Collect(data, "name")
        rls == Collect(data, "rule")
    IN [err |-> NoErr,
        config |-> [nil |-> FALSE,
                    Include |-> IF incs = <<>> THEN config.Include ELSE incs,
                    Name |-> IF names = <<>> THEN config.Name ELSE names[Len(names)],
                    Rules |-> IF rls = <<>> THEN config.Rules ELSE rls]]

\* ------------------------------------------------------------------ LoadConfig
NoLcReturn == [returned |-> FALSE, config |-> NilConfig, err |-> NoErr, wrap |-> ""]
NoLcHist == [final |-> FALSE, buffer |-> <<>>]

LcIdle ==
  /\ lpc = "idle"
  /\ ldata = <<>>
  /\ lconfig = NilConfig
  /\ lbuffer = <<>>
  /\ lrange = [slice |-> <<>>, i |-> 1]
  /\ lcret = NoLcReturn
  /\ llog = <<>>
  /\ lnotify = <<>>
  /\ lhist = NoLcHist

LcQuiet ==
  /\ content = [src \in Sources |-> <<>>]
  /\ LcIdle

LcInit ==
  /\ \E pc \in PrimaryContents, ic \in [Includable -> IncludeContents] :
       content = [src \in Sources |-> IF src = Primary THEN pc ELSE ic[src]]
  /\ LcIdle

Logged(op, src, ok) == llog' = Append(llog, [op |-> op, src |-> src, ok |-> ok])

\* The step each error of a collaborator comes from.
StepOf(err) ==
  CASE err = "ErrUnknownBackend" -> "storage.Get"
    [] err = "ErrLoad" -> "Load"
    [] err = "ErrUnknownEncoding" -> "marshal.Get"
    [] err = "ErrDecode" -> "UnMarshal"
    [] OTHER -> "RegisterNotify"

\* Variant of ErrWrap: the error is wrapped with the name of the failing step.
ErrWrapStep(err) == StepOf(err)

\* The message LoadConfig wraps around the error of a failing step: none,
\* every failure is `return nil, err` (lines 32, 36, 40, 45, 49, 55, 59, 65,
\* 70).
ErrWrap(err) == ""

\* Variant of LcFail: the configuration decoded so far is returned with the
\* error.
LcFailPartial(err) ==
  /\ lpc' = "done"
  /\ lcret' = [returned |-> TRUE, config |-> lconfig, err |-> err,
               wrap |-> ErrWrap(err)]

\* return nil, err
LcFail(err) ==
  /\ lpc' = "done"
  /\ lcret' = [returned |-> TRUE, config |-> NilConfig, err |-> err,
               wrap |-> ErrWrap(err)]

\* LoadConfig is called for the primary source (line 29).
LoadConfig ==
  /\ lpc = "idle"
  /\ lpc' = "storage.Get"
  /\ UNCHANGED <<content, ldata, lconfig, lbuffer, lrange, lcret, llog, lnotify, lhist>>
  /\ LcFrame

\* Variant of LcStorageGet: the encoding is resolved next, and the decode
\* follows it without a Load.
LcStorageGetThenEncoding ==
  /\ lpc = "storage.Get"
  /\ \E ok \in BOOLEAN :
       /\ Logged("storage.Get", Primary, ok)
       /\ IF ok THEN lpc' = "marshal.Get" /\ UNCHANGED lcret
          ELSE LcFail("ErrUnknownBackend")
  /\ UNCHANGED <<content, ldata, lconfig, lbuffer, lrange, lnotify, lhist>>
  /\ LcFrame

\* s, err := storage.Get(typ, params), lines 30-33
LcStorageGet ==
  /\ lpc = "storage.Get"
  /\ \E ok \in BOOLEAN :
       /\ Logged("storage.Get", Primary, ok)
       /\ IF ok THEN lpc' = "Load" /\ UNCHANGED lcret
          ELSE LcFail("ErrUnknownBackend")
  /\ UNCHANGED <<content, ldata, lconfig, lbuffer, lrange, lnotify, lhist>>
  /\ LcFrame

\* data, err := s.Load(), lines 34-37
LcLoad ==
  /\ lpc = "Load"
  /\ \E ok \in BOOLEAN :
       /\ Logged("Load", Primary, ok)
       /\ IF ok THEN lpc' = "marshal.Get" /\ ldata' = content[Primary] /\ UNCHANGED lcret
          ELSE LcFail("ErrLoad") /\ UNCHANGED ldata
  /\ UNCHANGED <<content, lconfig, lbuffer, lrange, lnotify, lhist>>
  /\ LcFrame

\* m, err := marshal.Get(encode, params), lines 38-41
LcMarshalGet ==
  /\ lpc = "marshal.Get"
  /\ \E ok \in BOOLEAN :
       /\ Logged("marshal.Get", Primary, ok)
       /\ IF ok THEN lpc' = "UnMarshal" /\ UNCHANGED lcret
          ELSE LcFail("ErrUnknownEncoding")
  /\ UNCHANGED <<content, ldata, lconfig, lbuffer, lrange, lnotify, lhist>>
  /\ LcFrame

\* config := new(model.Config); _, err = m.UnMarshal(data, config), lines 42-46
LcDecode ==
  /\ lpc = "UnMarshal"
  /\ LET dec == UnMarshalConfig(ldata, NewConfig) IN
     /\ Logged("UnMarshal", Primary, dec.err = NoErr)
     /\ lconfig' = dec.config
     /\ IF dec.err = NoErr THEN lpc' = "RegisterNotify" /\ UNCHANGED lcret
        ELSE LcFail(dec.err)
  /\ UNCHANGED <<content, ldata, lbuffer, lrange, lnotify, lhist>>
  /\ LcFrame

\* Where the loop of line 52 stands: at an element, or past the last one.
LoopAt(rng) == IF rng.i <= Len(rng.slice) THEN "include.storage.Get" ELSE "final.UnMarshal"

\* The Include entries listed inside the sources a list names.
RECURSIVE NestedIncludes(_)
NestedIncludes(srcs) ==
  IF srcs = <<>> THEN <<>>
  ELSE Collect(content[Head(srcs)], "include") \o NestedIncludes(Tail(srcs))

\* Variant of IncludesOf: the entries the included sources list are walked
\* after the primary's own.
IncludesOfNested(config) == config.Include \o NestedIncludes(config.Include)

\* The slice the loop of line 52 walks: the Include list of the configuration
\* decoded from the primary alone, evaluated once.
IncludesOf(config) == config.Include

\* err = s.RegisterNotify(ctx, notify); buffer := bytes.NewBuffer(data);
\* for _, v := range config.Include, lines 47-52
LcRegister ==
  /\ lpc = "RegisterNotify"
  /\ \E ok \in BOOLEAN :
       /\ Logged("RegisterNotify", Primary, ok)
       /\ IF ok
          THEN /\ lnotify' = Append(lnotify, Primary)
               /\ lbuffer' = ldata
               /\ lrange' = [slice |-> IncludesOf(lconfig), i |-> 1]
               /\ lpc' = LoopAt(lrange')
               /\ UNCHANGED lcret
          ELSE /\ LcFail("ErrNotify")
               /\ UNCHANGED <<lnotify, lbuffer, lrange>>
  /\ UNCHANGED <<content, ldata, lconfig, lhist>>
  /\ LcFrame

\* v of the current iteration
Current == lrange.slice[lrange.i]

\* c, err := storage.Get(v.Typ, v.Params), lines 53-56
LcIncludeGet ==
  /\ lpc = "include.storage.Get"
  /\ \E ok \in BOOLEAN :
       /\ Logged("storage.Get", Current, ok)
       /\ IF ok THEN lpc' = "include.Load" /\ UNCHANGED lcret
          ELSE LcFail("ErrUnknownBackend")
  /\ UNCHANGED <<content, ldata, lconfig, lbuffer, lrange, lnotify, lhist>>
  /\ LcFrame

\* Variant of Merge: the include's bytes follow without a separator.
MergeNoNewline(buffer, data) == buffer \o data

\* buffer.WriteByte('\n'); buffer.Write(data), lines 61-62
Merge(buffer, data) == buffer \o <<NL>> \o data

\* data, err = c.Load(); buffer.WriteByte('\n'); buffer.Write(data), lines 57-62
LcIncludeLoad ==
  /\ lpc = "include.Load"
  /\ \E ok \in BOOLEAN :
       /\ Logged("Load", Current, ok)
       /\ IF ok
          THEN /\ ldata' = content[Current]
               /\ lbuffer' = Merge(lbuffer, content[Current])
               /\ lpc' = "include.RegisterNotify"
               /\ UNCHANGED lcret
          ELSE /\ LcFail("ErrLoad")
               /\ UNCHANGED <<ldata, lbuffer>>
  /\ UNCHANGED <<content, lconfig, lrange, lnotify, lhist>>
  /\ LcFrame

\* Variant of LcIncludeRegister: a source that already has the callback is
\* not registered again.
LcIncludeRegisterOnce ==
  /\ lpc = "include.RegisterNotify"
  /\ \E ok \in BOOLEAN :
       /\ Logged("RegisterNotify", Current, ok)
       /\ IF ok
          THEN /\ lnotify' = IF \E i \in 1..Len(lnotify) : lnotify[i] = Current
                             THEN lnotify ELSE Append(lnotify, Current)
               /\ lrange' = [lrange EXCEPT !.i = @ + 1]
               /\ lpc' = LoopAt(lrange')
               /\ UNCHANGED lcret
          ELSE /\ LcFail("ErrNotify")
               /\ UNCHANGED <<lnotify, lrange>>
  /\ UNCHANGED <<content, ldata, lconfig, lbuffer, lhist>>
  /\ LcFrame

\* err = c.RegisterNotify(ctx, notify), lines 63-67, and the next iteration
LcIncludeRegister ==
  /\ lpc = "include.RegisterNotify"
  /\ \E ok \in BOOLEAN :
       /\ Logged("RegisterNotify", Current, ok)
       /\ IF ok
          THEN /\ lnotify' = Append(lnotify, Current)
               /\ lrange' = [lrange EXCEPT !.i = @ + 1]
               /\ lpc' = LoopAt(lrange')
               /\ UNCHANGED lcret
          ELSE /\ LcFail("ErrNotify")
               /\ UNCHANGED <<lnotify, lrange>>
  /\ UNCHANGED <<content, ldata, lconfig, lbuffer, lhist>>
  /\ LcFrame

\* Variant of Named: a name the decoded content carries is kept.
NamedUnlessSet(config, name) ==
  IF config.Name = "" THEN [config EXCEPT !.Name = name] ELSE config

\* config.Info.Name = s.Name(), line 72
Named(config, name) == [config EXCEPT !.Name = name]

\* _, err = m.UnMarshal(buffer.Bytes(), config); config.Info.Name = s.Name();
\* return config, nil, lines 68-73
LcFinal ==
  /\ lpc = "final.UnMarshal"
  /\ LET dec == UnMarshalConfig(lbuffer, lconfig) IN
     /\ Logged("UnMarshal", Primary, dec.err = NoErr)
     /\ lhist' = [final |-> TRUE, buffer |-> lbuffer]
     /\ IF dec.err = NoErr
        THEN /\ lconfig' = Named(dec.config, StorageName[Primary])
             /\ lcret' = [returned |-> TRUE, config |-> lconfig', err |-> NoErr,
                          wrap |-> ""]
             /\ lpc' = "done"
        ELSE /\ lconfig' = dec.config
             /\ LcFail(dec.err)
  /\ UNCHANGED <<content, ldata, lbuffer, lrange, lnotify>>
  /\ LcFrame

LcNext ==
  \/ LoadConfig
  \/ LcStorageGet
  \/ LcLoad
  \/ LcMarshalGet
  \/ LcDecode
  \/ LcRegister
  \/ LcIncludeGet
  \/ LcIncludeLoad
  \/ LcIncludeRegister
  \/ LcFinal

\* ------------------------------------------------------------------ LoadConfig: properties
\* The primary's bytes decoded alone, and the merge of the primary with the
\* includes that decode lists, in the order it lists them.
PrimaryDecoded == UnMarshalConfig(content[Primary], NewConfig).config

RECURSIVE Joined(_)
Joined(srcs) ==
  IF srcs = <<>> THEN <<>>
  ELSE <<NL>> \o content[Head(srcs)] \o Joined(Tail(srcs))

MergedBuffer == content[Primary] \o Joined(PrimaryDecoded.Include)

LcSucceeded == lcret.returned /\ lcret.err = NoErr
LcFailed == lcret.returned /\ lcret.err # NoErr
Unnamed(config) == [config EXCEPT !.Name = ""]

\* C8: when the primary and its includes have loaded, the buffer handed to the
\* final decode is the primary's bytes followed, for each include in the
\* order of the decoded primary's Include list, by one newline and the
\* include's bytes; the configuration returned is that buffer decoded into the
\* object the primary-only decode filled.
C8_MergeOrder ==
  /\ lhist.final => lhist.buffer = MergedBuffer
  /\ LcSucceeded =>
       /\ lhist.final
       /\ Unnamed(lcret.config) =
            Unnamed(UnMarshalConfig(MergedBuffer, PrimaryDecoded).config)

\* C8 witness: a primary that lists c before b, with different bytes, loaded.
C8_Witness ==
  /\ LcSucceeded
  /\ PrimaryDecoded.Include = <<"c", "b">>
  /\ content["b"] # <<>> /\ content["c"] # <<>> /\ content["b"] # content["c"]
  /\ lhist.buffer = content[Primary] \o <<NL>> \o content["c"] \o <<NL>> \o content["b"]

\* The steps LoadConfig made, by kind and source.
LogIndex == 1..Len(llog)
LoadsOf(src) == Cardinality({i \in LogIndex : llog[i].op = "Load" /\ llog[i].src = src})
ListedTimes(src) ==
  Cardinality({i \in 1..Len(PrimaryDecoded.Include) : PrimaryDecoded.Include[i] = src})

\* LoadConfig stops at the first error: it returns the error and a nil
\* configuration, and the failing step is the last one it made.
AbortsAtFirstError ==
  /\ LcFailed => lcret.config = NilConfig
  /\ \A i \in LogIndex : ~llog[i].ok => i = Len(llog)
  /\ (\E i \in LogIndex : ~llog[i].ok) <=> LcFailed
  /\ lcret.returned => lpc = "done"

\* C9 as stated: LoadConfig stops at the first error, and never calls Load on
\* the same source twice within one invocation.
C9_AbortNoSecondLoad ==
  /\ AbortsAtFirstError
  /\ \A src \in Sources : LoadsOf(src) <= 1

\* C9, amended: LoadConfig stops at the first error, and calls Load once for
\* the primary and at most once for each Include entry of the decoded primary,
\* so a source is loaded twice only if it is listed twice.
C9_AbortOneLoadPerEntry ==
  /\ AbortsAtFirstError
  /\ \A src \in Sources :
       LoadsOf(src) <= (IF src = Primary THEN 1 ELSE 0) + ListedTimes(src)

\* C9 witness: the Load of the second include failed after the first include
\* was loaded and registered; LoadConfig returned the error and nil.
C9_Witness ==
  /\ LcFailed /\ lcret.err = "ErrLoad" /\ lcret.config = NilConfig
  /\ lrange.i = 2
  /\ llog[Len(llog)] = [op |-> "Load", src |-> lrange.slice[2], ok |-> FALSE]
  /\ lnotify = <<Primary, lrange.slice[1]>>

\* C10: a configuration LoadConfig returns has Info.Name equal to the primary
\* storage's Name(), whatever name the decoded bytes carry.
C10_NameIsStorageName ==
  LcSucceeded => (~lcret.config.nil /\ lcret.config.Name = StorageName[Primary])

\* C10 witness: the merged bytes carry names of their own.
C10_Witness ==
  /\ LcSucceeded
  /\ Collect(lhist.buffer, "name") = <<"x", "y">>
  /\ lcret.config.Name = "a.conf"

\* The step that failed, when one did: the last one logged.
LastStep == llog[Len(llog)]

RECURSIVE RegisteredIn(_)
RegisteredIn(log) ==
  IF log = <<>> THEN <<>>
  ELSE (IF Head(log).op = "RegisterNotify" /\ Head(log).ok
        THEN <<Head(log).src>> ELSE <<>>) \o RegisteredIn(Tail(log))

\* C13: the sources holding the callback are at every moment exactly those
\* whose RegisterNotify has succeeded, one registration per call (none is
\* taken back, also when LoadConfig fails: then they are the ones registered
\* before the failing step); the primary is registered before any include is
\* loaded, every include right after its own Load; a LoadConfig that succeeds
\* has registered the primary and then each Include entry once, 1 + N
\* registrations.
C13_NotifyWiring ==
  /\ lnotify = RegisteredIn(llog)
  /\ LcFailed => lnotify = RegisteredIn(SubSeq(llog, 1, Len(llog) - 1))
  /\ \A i \in LogIndex :
       (llog[i].op = "Load" /\ llog[i].src # Primary) =>
         \E j \in 1..(i - 1) :
           llog[j] = [op |-> "RegisterNotify", src |-> Primary, ok |-> TRUE]
  /\ \A i \in LogIndex :
       (llog[i].op = "RegisterNotify" /\ llog[i].src # Primary) =>
         (i > 1 /\ llog[i - 1] = [op |-> "Load", src |-> llog[i].src, ok |-> TRUE])
  /\ LcSucceeded =>
       /\ lnotify = <<Primary>> \o PrimaryDecoded.Include
       /\ Len(lnotify) = 1 + Len(PrimaryDecoded.Include)

\* C13 witness: a primary listing b twice was loaded: b's storage was
\* registered once per entry, after the primary.
C13_Witness ==
  /\ LcSucceeded
  /\ PrimaryDecoded.Include = <<"b", "b">>
  /\ lnotify = <<Primary, "b", "b">>

\* Some step of the given kind on the primary is in the log.
PrimaryStep(op) == \E i \in LogIndex : llog[i].op = op /\ llog[i].src = Primary
EncodingUnregistered ==
  \E i \in LogIndex : llog[i].op = "marshal.Get" /\ ~llog[i].ok

\* C14 as stated: when the encoding identifier is unregistered, LoadConfig
\* fails with the registry's error and has not called Load on the primary.
C14_ResolveBeforeLoad ==
  EncodingUnregistered =>
    /\ LcFailed /\ lcret.err = "ErrUnknownEncoding"
    /\ ~PrimaryStep("Load")

\* C14, amended: LoadConfig resolves the storage, loads the primary's bytes
\* and then resolves the encoding: when the encoding identifier is
\* unregistered, it fails with the registry's error after one Load on the
\* primary, before any decode and any registration.
C14_LoadBeforeEncoding ==
  /\ PrimaryStep("marshal.Get") =>
       /\ Len(llog) >= 3
       /\ llog[1] = [op |-> "storage.Get", src |-> Primary, ok |-> TRUE]
       /\ llog[2] = [op |-> "Load", src |-> Primary, ok |-> TRUE]
       /\ llog[3].op = "marshal.Get"
  /\ EncodingUnregistered =>
       /\ LcFailed /\ lcret.err = "ErrUnknownEncoding"
       /\ Len(llog) = 3
       /\ lnotify = <<>> /\ lconfig = NilConfig

\* C14 witness: the encoding is unregistered and the primary has been loaded.
C14_Witness ==
  /\ EncodingUnregistered /\ LcFailed
  /\ PrimaryStep("Load") /\ ldata = content[Primary] /\ ldata # <<>>

\* The sources a source lists, and the sources reachable from the primary
\* through Include entries.
Elements(seq) == {seq[i] : i \in 1..Len(seq)}
ListedBy(src) == Elements(Collect(content[src], "include"))
RECURSIVE ReachableFrom(_)
ReachableFrom(S) ==
  LET T == S \cup UNION {ListedBy(src) : src \in S}
  IN IF T = S THEN S ELSE ReachableFrom(T)
Touched == {llog[i].src : i \in LogIndex}

\* C16 as stated: a LoadConfig that succeeds has loaded, merged and registered
\* every source reachable from the primary through Include entries, those
\* listed by included sources too.
C16_RecursiveIncludes ==
  LcSucceeded =>
    \A src \in ReachableFrom({Primary}) :
      /\ LoadsOf(src) >= 1
      /\ src \in Elements(lnotify)

\* C16, amended: includes are loaded one level deep: LoadConfig touches only
\* the primary and the sources the primary itself lists, and when it succeeds
\* it has loaded, merged and registered exactly those; a source listed only
\* by an included source is neither loaded nor merged nor registered.
C16_OneLevelIncludes ==
  /\ Touched \subseteq {Primary} \cup ListedBy(Primary)
  /\ LcSucceeded =>
       /\ {src \in Sources : LoadsOf(src) >= 1} = {Primary} \cup ListedBy(Primary)
       /\ Elements(lnotify) = {Primary} \cup ListedBy(Primary)
       /\ lhist.buffer = content[Primary] \o Joined(Collect(content[Primary], "include"))

\* C16 witness: the primary lists b, b lists c, LoadConfig succeeded and c
\* was never touched.
C16_Witness ==
  /\ LcSucceeded
  /\ ListedBy(Primary) = {"b"} /\ "c" \in ListedBy("b")
  /\ "c" \notin Touched /\ LoadsOf("b") = 1

\* ------------------------------------------------------------------ specifications
\* The Runtime Store with concurrent callers, and with a single caller.
InitRuntime == RtInit /\ MdQuiet /\ ApQuiet /\ LcQuiet
SpecRuntime == InitRuntime /\ [][RtNext]_vars
SpecRuntimeSeq == InitRuntime /\ [][RtNextSeq]_vars

\* The mode-override handles with concurrent requests, and one at a time.
InitMode == MdInit /\ RtQuiet /\ disk = NoFile /\ ApQuiet /\ LcQuiet
SpecMode == InitMode /\ [][MdNext]_vars
SpecModeSeq == InitMode /\ [][MdNextSeq]_vars

\* The Config Applier, called again and again (a reload applies anew).
InitApply == ApInit /\ RtQuiet /\ disk = NoFile /\ MdQuiet /\ LcQuiet
SpecApply == InitApply /\ [][ApNext]_vars

\* The Config Loader: one LoadConfig on each choice of sources.
InitLoad == LcInit /\ RtQuiet /\ disk = NoFile /\ MdQuiet /\ ApQuiet
SpecLoad == InitLoad /\ [][LcNext]_vars

====
